---- MODULE Spec2Model ----
(***************************************************************************)
(* Generic scraping / analysis pipeline of automate-anything:              *)
(* ScrapingOrchestrator and AnalysisOrchestrator (src/src/services), the   *)
(* built-in scraper modules (src/src/modules) and the four generic tables  *)
(* (src/src/models/tables.py).                                             *)
(*                                                                         *)
(* A table is a function from primary keys to rows.  A Python dict is a    *)
(* sequence of <<key, value>> pairs in insertion order.  Every public      *)
(* operation is one action; what its caller observes (value returned or    *)
(* exception raised, and the module functions that were invoked) is        *)
(* recorded in resp.  Where requests run side by side, a scrape_source     *)
(* call and a delete_source request advance one committed transaction at a *)
(* time: calls holds each scrape call's position and locals, deletion the  *)
(* delete request in flight.                                               *)
(***************************************************************************)
EXTENDS Integers, Sequences, FiniteSets, TLC

VARIABLES sources, scraped_data, processed_data, scraping_jobs,
          scrapers, analyzers, last_scraper, last_analyzer, now, resp,
          calls, deletion, courses

vars == <<sources, scraped_data, processed_data, scraping_jobs,
          scrapers, analyzers, last_scraper, last_analyzer, now, resp,
          calls, deletion, courses>>

tables == <<sources, scraped_data, processed_data, scraping_jobs>>

----------------------------------------------------------------------------
(* Bounds *)

MaxSources == 2
MaxJobs == 2
MaxItems == 2
MaxScrapes == 1
MaxCalls == 2
MaxBatch == 2

----------------------------------------------------------------------------
(* Values *)

None == "<None>"
NoTime == -1
NoId == 0
\* sentiment scores in tenths: 0 is 0.0, 5 is 0.5, 10 is 1.0
NoScore == -1

SourceNames == {"Hacker News", "Tech News"}
ModuleNames == {"openhpi_public", "news_scraper", "dummy"}

\* messages of the exceptions a fetch (requests.Session.get / raise_for_status) raises
FetchErrors == {"", "timeout"}
FetchOutcomes == {[ok |-> TRUE, msg |-> None]} \cup {[ok |-> FALSE, msg |-> m] : m \in FetchErrors}

----------------------------------------------------------------------------
(* Helpers *)

SetMax(S) == CHOOSE x \in S : \A y \in S : y <= x

\* autoincrement primary key (SQLite rowid: max + 1)
NextId(rows) == IF DOMAIN rows = {} THEN 1 ELSE SetMax(DOMAIN rows) + 1

Insert(rows, id, row) == [k \in DOMAIN rows \cup {id} |-> IF k = id THEN row ELSE rows[k]]

RECURSIVE SortedSeq(_)
SortedSeq(S) ==
    IF S = {} THEN <<>>
    ELSE LET m == CHOOSE x \in S : \A y \in S : x <= y
         IN <<m>> \o SortedSeq(S \ {m})

Range(s) == {s[i] : i \in DOMAIN s}

----------------------------------------------------------------------------
(* Python dict: self._scrapers / self._analyzers *)

DictKeys(d) == [i \in DOMAIN d |-> d[i][1]]

DictHas(d, k) == \E i \in DOMAIN d : d[i][1] = k

\* d.get(k): the value stored under k, None when k is not a key
DictGet(d, k) ==
    IF DictHas(d, k) THEN d[CHOOSE i \in DOMAIN d : d[i][1] = k][2] ELSE None

\* DictSet with the bug of a list of pairs: every assignment appends
DictSet_append(d, k, v) == Append(d, <<k, v>>)

\* d[k] = v: replaces the value of an existing key in place, appends a new key
DictSet(d, k, v) ==
    IF DictHas(d, k)
    THEN [i \in DOMAIN d |-> IF d[i][1] = k THEN <<k, v>> ELSE d[i]]
    ELSE Append(d, <<k, v>>)

register_scraper(d, module_name, scraper_func) == DictSet(d, module_name, scraper_func)
get_scraper(d, module_name) == DictGet(d, module_name)
list_available_scrapers(d) == DictKeys(d)

register_analyzer(d, module_name, analyzer_func) == DictSet(d, module_name, analyzer_func)
get_analyzer(d, module_name) == DictGet(d, module_name)
list_available_analyzers(d) == DictKeys(d)

\* ScrapingOrchestrator.__init__ / _register_default_scrapers
DefaultScrapers == register_scraper(<<>>, "openhpi_public", "scrape_openhpi_public")
\* AnalysisOrchestrator.__init__
DefaultAnalyzers == <<>>

----------------------------------------------------------------------------
(* Exceptions and call outcomes *)

\* ValueError("Source with id ... not found") and the like are told apart by
\* the message the code builds; kind names the message template.  An outcome
\* carries the exception that reaches the caller (exc) and the one that was
\* raised first (cause, Python's __context__ when a handler raises anew).
Exc(kind, msg) == [kind |-> kind, msg |-> msg, available |-> <<>>]
NotFound == Exc("NotFound", "not found")
InvalidState == Exc("InvalidState", "is not active")
\* UnsupportedModule with the bug of a message that lists no module
UnsupportedModule_bare(names) ==
    [kind |-> "UnsupportedModule", msg |-> "No module registered", available |-> <<>>]

UnsupportedModule(names) ==
    [kind |-> "UnsupportedModule", msg |-> "No module registered", available |-> names]
\* the exception of a db.commit() that fails, told apart by the commit it is
CommitError(site) == [kind |-> "CommitError", msg |-> "commit failed", available |-> <<site>>]
NoExc == Exc(None, None)
NoResult == [no_result |-> TRUE]

Returned(db, t, result, invoked) ==
    [db |-> db, now |-> t, raised |-> FALSE, exc |-> NoExc, cause |-> NoExc,
     result |-> result, invoked |-> invoked, dispatched |-> <<>>]
Raised(db, t, exc, invoked) ==
    [db |-> db, now |-> t, raised |-> TRUE, exc |-> exc, cause |-> exc,
     result |-> NoResult, invoked |-> invoked, dispatched |-> <<>>]

DB == [sources |-> sources, scraped_data |-> scraped_data,
       processed_data |-> processed_data, scraping_jobs |-> scraping_jobs]

----------------------------------------------------------------------------
(* Built-in scraper modules: HackerNewsScraper / OpenHPIPublicScraper *)

\* What the environment does to one module run: whether each commit goes
\* through (c1 job creation, c2 save, c3 completion, c4 failure handler),
\* the outcome of the two HTTP fetches and the number of items parsed from
\* the page.  The clock advances by one tick between the job's start and
\* the module's later time stamps.
ScrapeEnvs ==
    [c1 : BOOLEAN, c2 : BOOLEAN, c3 : BOOLEAN, c4 : BOOLEAN,
     f1 : FetchOutcomes, f2 : FetchOutcomes, n : 0..MaxItems]

\* NewJob with the bug of leaving status to the column default
NewJob_pending(job_type, t, source_id) ==
    [job_type |-> job_type, status |-> "pending", started_at |-> t,
     completed_at |-> NoTime, records_processed |-> 0, error_message |-> None,
     source_id |-> source_id]

NewJob(job_type, t, source_id) ==
    [job_type |-> job_type, status |-> "running", started_at |-> t,
     completed_at |-> NoTime, records_processed |-> 0, error_message |-> None,
     source_id |-> source_id]

\* data_metadata of a new ProcessedData row: the fields parsed from the page
\* (story_id, url, ... / course_id, url, ...), told apart by their first key
ItemMetadata(processor_module) ==
    IF processor_module = "news_scraper"
    THEN << <<"story_id", "parsed">> >>
    ELSE << <<"course_id", "parsed">> >>

\* save_to_generic_tables with the bug of stamping every Source
save_to_generic_tables_stamp_all(db, t, source_id, processor_module, n) ==
    LET sid == NextId(db.scraped_data)
        scraped == [source_id |-> source_id, scraped_at |-> t, scrape_job_id |-> NoId,
                    raw_html |-> "first response", raw_json |-> "second response"]
        first == NextId(db.processed_data)
        newIds == first .. (first + n - 1)
        item == [scraped_data_id |-> sid, processor_module |-> processor_module,
                 sentiment_score |-> NoScore, key_concepts |-> None,
                 data_metadata |-> ItemMetadata(processor_module), processed_at |-> t]
    IN [db |-> [db EXCEPT
                  !.scraped_data = Insert(@, sid, scraped),
                  !.processed_data =
                      [k \in DOMAIN @ \cup newIds |-> IF k \in newIds THEN item ELSE @[k]],
                  !.sources = [k \in DOMAIN @ |-> [@[k] EXCEPT !.last_scraped_at = t]]],
        scraped_data_id |-> sid,
        processed_records |-> n]

\* save_to_generic_tables with the bug of not touching Source.last_scraped_at
save_to_generic_tables_stale(db, t, source_id, processor_module, n) ==
    LET sid == NextId(db.scraped_data)
        scraped == [source_id |-> source_id, scraped_at |-> t, scrape_job_id |-> NoId,
                    raw_html |-> "first response", raw_json |-> "second response"]
        first == NextId(db.processed_data)
        newIds == first .. (first + n - 1)
        item == [scraped_data_id |-> sid, processor_module |-> processor_module,
                 sentiment_score |-> NoScore, key_concepts |-> None,
                 data_metadata |-> ItemMetadata(processor_module), processed_at |-> t]
    IN [db |-> [db EXCEPT
                  !.scraped_data = Insert(@, sid, scraped),
                  !.processed_data =
                      [k \in DOMAIN @ \cup newIds |-> IF k \in newIds THEN item ELSE @[k]]],
        scraped_data_id |-> sid,
        processed_records |-> n]

\* save_to_generic_tables: one ScrapedData row, one ProcessedData row per
\* item, Source.last_scraped_at, one commit.  scrape_and_save passes it the
\* text of its own GET as raw_html and the items that scrape_front_page /
\* scrape_courses_page parsed from a second GET, stored as raw_json and as
\* the ProcessedData rows; a row names the response each payload came from.
save_to_generic_tables(db, t, source_id, processor_module, n) ==
    LET sid == NextId(db.scraped_data)
        scraped == [source_id |-> source_id, scraped_at |-> t, scrape_job_id |-> NoId,
                    raw_html |-> "first response", raw_json |-> "second response"]
        first == NextId(db.processed_data)
        newIds == first .. (first + n - 1)
        item == [scraped_data_id |-> sid, processor_module |-> processor_module,
                 sentiment_score |-> NoScore, key_concepts |-> None,
                 data_metadata |-> ItemMetadata(processor_module), processed_at |-> t]
    IN [db |-> [db EXCEPT
                  !.scraped_data = Insert(@, sid, scraped),
                  !.processed_data =
                      [k \in DOMAIN @ \cup newIds |-> IF k \in newIds THEN item ELSE @[k]],
                  !.sources[source_id].last_scraped_at = t],
        scraped_data_id |-> sid,
        processed_records |-> n]

\* JobFailed with the bug of not recording the exception's message
JobFailed_no_message(db, t, job_id, e, env, invoked) ==
    IF env.c4
    THEN Raised([db EXCEPT !.scraping_jobs[job_id].status = "failed",
                           !.scraping_jobs[job_id].completed_at = t],
                t, e, invoked)
    ELSE [Raised(db, t, CommitError("handler"), invoked) EXCEPT !.cause = e]

\* the except branch of scrape_and_save: mark the job failed, commit, re-raise
JobFailed(db, t, job_id, e, env, invoked) ==
    IF env.c4
    THEN Raised([db EXCEPT !.scraping_jobs[job_id].status = "failed",
                           !.scraping_jobs[job_id].completed_at = t,
                           !.scraping_jobs[job_id].error_message = e.msg],
                t, e, invoked)
    ELSE [Raised(db, t, CommitError("handler"), invoked) EXCEPT !.cause = e]

scrape_and_save(db, t, source_id, job_type, processor_module, count_key, env, invoked) ==
    IF source_id \notin DOMAIN db.sources THEN Raised(db, t, NotFound, invoked)
    ELSE IF ~env.c1 THEN Raised(db, t, CommitError("job"), invoked)
    ELSE
      LET job_id == NextId(db.scraping_jobs)
          db1 == [db EXCEPT !.scraping_jobs = Insert(@, job_id, NewJob(job_type, t, source_id))]
          t1 == t + 1
          saved == save_to_generic_tables(db1, t1, source_id, processor_module, env.n)
          db2 == saved.db
          db3 == [db2 EXCEPT !.scraping_jobs[job_id].status = "completed",
                             !.scraping_jobs[job_id].completed_at = t1,
                             !.scraping_jobs[job_id].records_processed = saved.processed_records]
          result == [k \in {"success", count_key, "processed_records", "scraped_data_id", "job_id"} |->
                        CASE k = "success" -> TRUE
                          [] k = count_key -> env.n
                          [] k = "processed_records" -> saved.processed_records
                          [] k = "scraped_data_id" -> saved.scraped_data_id
                          [] k = "job_id" -> job_id]
      IN IF ~env.f1.ok THEN JobFailed(db1, t1, job_id, Exc("RequestException", env.f1.msg), env, invoked)
         ELSE IF ~env.f2.ok THEN JobFailed(db1, t1, job_id, Exc("RequestException", env.f2.msg), env, invoked)
         ELSE IF ~env.c2 THEN JobFailed(db1, t1, job_id, CommitError("save"), env, invoked)
         ELSE IF ~env.c3 THEN JobFailed(db2, t1, job_id, CommitError("complete"), env, invoked)
         ELSE Returned(db3, t1, result, invoked)

scrape_news(db, t, source_id, env, invoked) ==
    scrape_and_save(db, t, source_id, "news_scraper", "news_scraper", "news_count", env, invoked)

scrape_openhpi_public(db, t, source_id, env, invoked) ==
    scrape_and_save(db, t, source_id, "openhpi_public_scrape", "openhpi_public",
                    "courses_count", env, invoked)

\* a scraper supplied by a caller that touches no table and reports success
dummy_scraper(db, t, source_id, invoked) ==
    Returned(db, t, [success |-> TRUE], invoked)

\* a scraper supplied by a caller that touches no table and raises
failing_scraper(db, t, source_id, invoked) ==
    Raised(db, t, Exc("Exception", "stub failure"), invoked)

\* a scraper supplied by a caller that writes one ScrapedData row and three
\* ProcessedData rows under its own module name, and no job
stub_scraper(db, t, source_id, invoked) ==
    LET saved == save_to_generic_tables(db, t, source_id, "dummy", 3)
    IN Returned(saved.db, t,
                [success |-> TRUE, records_processed |-> saved.processed_records],
                invoked)

CallScraper(fn, db, t, source_id, env, invoked) ==
    CASE fn = "scrape_news" -> scrape_news(db, t, source_id, env, invoked)
      [] fn = "stub_scraper" -> stub_scraper(db, t, source_id, invoked)
      [] fn = "scrape_openhpi_public" -> scrape_openhpi_public(db, t, source_id, env, invoked)
      [] fn = "dummy_scraper" -> dummy_scraper(db, t, source_id, invoked)
      [] fn = "failing_scraper" -> failing_scraper(db, t, source_id, invoked)

----------------------------------------------------------------------------
(* ScrapingOrchestrator.scrape_source *)

\* scrape_source with the bug of writing a failed job for a missing Source
scrape_source_audit_missing(db, registry, t, source_id, env) ==
    IF source_id \notin DOMAIN db.sources
    THEN Raised([db EXCEPT !.scraping_jobs =
                    Insert(@, NextId(@), [NewJob("scrape", t, source_id) EXCEPT
                                             !.status = "failed", !.completed_at = t,
                                             !.error_message = NotFound.msg])],
                t, NotFound, <<>>)
    ELSE IF ~db.sources[source_id].is_active THEN Raised(db, t, InvalidState, <<>>)
    ELSE LET scraper_func == get_scraper(registry, db.sources[source_id].module_name)
         IN IF scraper_func = None
            THEN Raised(db, t, UnsupportedModule(list_available_scrapers(registry)), <<>>)
            ELSE CallScraper(scraper_func, db, t, source_id, env, << <<scraper_func, source_id>> >>)

\* scrape_source with the bug of not looking at Source.is_active
scrape_source_ignore_active(db, registry, t, source_id, env) ==
    IF source_id \notin DOMAIN db.sources THEN Raised(db, t, NotFound, <<>>)
    ELSE LET scraper_func == get_scraper(registry, db.sources[source_id].module_name)
         IN IF scraper_func = None
            THEN Raised(db, t, UnsupportedModule(list_available_scrapers(registry)), <<>>)
            ELSE CallScraper(scraper_func, db, t, source_id, env, << <<scraper_func, source_id>> >>)

\* scrape_source with the bug of resolving the module before looking at
\* Source.is_active
scrape_source_module_first(db, registry, t, source_id, env) ==
    IF source_id \notin DOMAIN db.sources THEN Raised(db, t, NotFound, <<>>)
    ELSE LET scraper_func == get_scraper(registry, db.sources[source_id].module_name)
         IN IF scraper_func = None
            THEN Raised(db, t, UnsupportedModule(list_available_scrapers(registry)), <<>>)
            ELSE IF ~db.sources[source_id].is_active THEN Raised(db, t, InvalidState, <<>>)
            ELSE CallScraper(scraper_func, db, t, source_id, env, << <<scraper_func, source_id>> >>)

\* scrape_source with the bug of invoking the scraper again when it raises
scrape_source_retry(db, registry, t, source_id, env) ==
    IF source_id \notin DOMAIN db.sources THEN Raised(db, t, NotFound, <<>>)
    ELSE IF ~db.sources[source_id].is_active THEN Raised(db, t, InvalidState, <<>>)
    ELSE LET scraper_func == get_scraper(registry, db.sources[source_id].module_name)
         IN IF scraper_func = None
            THEN Raised(db, t, UnsupportedModule(list_available_scrapers(registry)), <<>>)
            ELSE LET first == CallScraper(scraper_func, db, t, source_id, env,
                                          << <<scraper_func, source_id>> >>)
                 IN IF first.raised
                    THEN CallScraper(scraper_func, first.db, first.now, source_id, env,
                                     Append(first.invoked, <<scraper_func, source_id>>))
                    ELSE first

scrape_source(db, registry, t, source_id, env) ==
    IF source_id \notin DOMAIN db.sources THEN Raised(db, t, NotFound, <<>>)
    ELSE IF ~db.sources[source_id].is_active THEN Raised(db, t, InvalidState, <<>>)
    ELSE LET scraper_func == get_scraper(registry, db.sources[source_id].module_name)
         IN IF scraper_func = None
            THEN Raised(db, t, UnsupportedModule(list_available_scrapers(registry)), <<>>)
            ELSE CallScraper(scraper_func, db, t, source_id, env, << <<scraper_func, source_id>> >>)

----------------------------------------------------------------------------
(* Analyzer modules *)

\* What the environment does to one analyzer run: whether the analyzer's
\* commit goes through and the backend of a caller-supplied analyzer answers,
\* and what the AI service does for analyze_headlines: "off" when
\* settings.google_api_key is unset, otherwise the answer to each headline
\* parses ("parsed"), does not ("unparsable") or the query raises ("error").
AiModes == {"off", "parsed", "unparsable", "error"}
AnalyzeEnvs ==
    {[commit_ok |-> TRUE, flaky_raises |-> FALSE, ai |-> m] : m \in AiModes}
      \cup {[commit_ok |-> FALSE, flaky_raises |-> TRUE, ai |-> "off"]}

ItemsOf(db, scraped_data_id) ==
    {p \in DOMAIN db.processed_data : db.processed_data[p].scraped_data_id = scraped_data_id}

RECURSIVE DictUpdate(_, _)
\* d[k1] = v1; d[k2] = v2; ... for a sequence of <<k, v>> pairs
DictUpdate(d, kvs) ==
    IF kvs = <<>> THEN d
    ELSE DictUpdate(DictSet(d, kvs[1][1], kvs[1][2]), Tail(kvs))

\* item.data_metadata = item.data_metadata or {}; item.data_metadata[k] = v; ...
\* as the commit stores it.  The column is a plain JSON column: when the
\* loaded value is a non-empty dict the assignment puts the same object back
\* and the later item writes change it in place, so the unit of work compares
\* the value with itself and leaves the column out of the UPDATE; a None or
\* empty value is replaced by a new dict, which is written.
MetadataWrite(old, kvs) ==
    IF old # None /\ old # <<>> THEN old ELSE DictUpdate(<<>>, kvs)

\* the dict analyze_headlines returns for n items
AnalysisSummary(ai, n) ==
    IF ai = "off"
    THEN [success |-> TRUE, message |-> "AI service not configured",
          analyzed_count |-> n, ai_enabled |-> FALSE]
    ELSE [success |-> TRUE, message |-> "Analyzed headlines",
          analyzed_count |-> IF ai = "parsed" THEN n ELSE 0,
          total_items |-> n,
          error_count |-> IF ai = "error" THEN n ELSE 0,
          ai_enabled |-> TRUE]

\* what analyze_headlines assigns to one item under an AI outcome; scores in
\* tenths, the answer that parses being {"sentiment": "positive", "score": 0.8}
SentimentOf(ai) ==
    CASE ai = "off" -> [score |-> 0,
                        meta |-> << <<"sentiment", "neutral">>,
                                    <<"sentiment_note", "AI service not configured">> >>]
      [] ai = "parsed" -> [score |-> 8,
                           meta |-> << <<"sentiment", "positive">>,
                                       <<"sentiment_reasoning", "reasoning">> >>]
      [] ai = "unparsable" -> [score |-> 5,
                               meta |-> << <<"sentiment", "neutral">>,
                                           <<"sentiment_note", "Could not parse AI response">> >>]
      [] ai = "error" -> [score |-> 5,
                          meta |-> << <<"sentiment", "neutral">>,
                                      <<"sentiment_error", "ai error">> >>]

\* analyze_headlines with the bug of adding the new score to the stored one
analyze_headlines_additive(db, t, scraped_data_id, env, invoked) ==
    IF scraped_data_id \notin DOMAIN db.scraped_data
    THEN Raised(db, t, Exc("ScrapedNotFound", "Scraped data not found"), invoked)
    ELSE LET processed_items == ItemsOf(db, scraped_data_id)
             s == SentimentOf(env.ai)
         IN IF processed_items = {}
            THEN Returned(db, t, [success |-> TRUE, message |-> "No headlines to analyze",
                                  analyzed_count |-> 0], invoked)
            ELSE IF ~env.commit_ok THEN Raised(db, t, CommitError("analysis"), invoked)
            ELSE Returned(
                   [db EXCEPT !.processed_data =
                       [p \in DOMAIN @ |->
                           IF p \in processed_items
                           THEN [@[p] EXCEPT
                                   !.sentiment_score = IF @ = NoScore THEN s.score ELSE @ + s.score,
                                   !.data_metadata = MetadataWrite(@, s.meta)]
                           ELSE @[p]]],
                   t,
                   AnalysisSummary(env.ai, Cardinality(processed_items)),
                   invoked)

\* analyze_headlines with the bug of writing its verdict into the ScrapedData row
analyze_headlines_stamping(db, t, scraped_data_id, env, invoked) ==
    IF scraped_data_id \notin DOMAIN db.scraped_data
    THEN Raised(db, t, Exc("ScrapedNotFound", "Scraped data not found"), invoked)
    ELSE LET processed_items == ItemsOf(db, scraped_data_id)
             s == SentimentOf(env.ai)
         IN IF processed_items = {}
            THEN Returned(db, t, [success |-> TRUE, message |-> "No headlines to analyze",
                                  analyzed_count |-> 0], invoked)
            ELSE IF ~env.commit_ok THEN Raised(db, t, CommitError("analysis"), invoked)
            ELSE Returned(
                   [db EXCEPT !.scraped_data[scraped_data_id].raw_json = "analyzed",
                              !.processed_data =
                       [p \in DOMAIN @ |->
                           IF p \in processed_items
                           THEN [@[p] EXCEPT !.sentiment_score = s.score,
                                             !.data_metadata = MetadataWrite(@, s.meta)]
                           ELSE @[p]]],
                   t,
                   AnalysisSummary(env.ai, Cardinality(processed_items)),
                   invoked)

\* news_scraper.analysis.analyze_headlines.  Its second parameter is a
\* ScrapedData id; every headline of the call gets the same AI outcome.
analyze_headlines(db, t, scraped_data_id, env, invoked) ==
    IF scraped_data_id \notin DOMAIN db.scraped_data
    THEN Raised(db, t, Exc("ScrapedNotFound", "Scraped data not found"), invoked)
    ELSE LET processed_items == ItemsOf(db, scraped_data_id)
             s == SentimentOf(env.ai)
         IN IF processed_items = {}
            THEN Returned(db, t, [success |-> TRUE, message |-> "No headlines to analyze",
                                  analyzed_count |-> 0], invoked)
            ELSE IF ~env.commit_ok THEN Raised(db, t, CommitError("analysis"), invoked)
            ELSE Returned(
                   [db EXCEPT !.processed_data =
                       [p \in DOMAIN @ |->
                           IF p \in processed_items
                           THEN [@[p] EXCEPT !.sentiment_score = s.score,
                                             !.data_metadata = MetadataWrite(@, s.meta)]
                           ELSE @[p]]],
                   t,
                   AnalysisSummary(env.ai, Cardinality(processed_items)),
                   invoked)

\* an analyzer supplied by a caller: sets sentiment_score = 1.0 on its row
stub_analyzer(db, t, processed_data_id, invoked) ==
    Returned([db EXCEPT !.processed_data[processed_data_id].sentiment_score = 10], t,
             [analyzed_count |-> 1], invoked)

\* an analyzer supplied by a caller that raises when its backend is down
flaky_analyzer(db, t, processed_data_id, env, invoked) ==
    IF env.flaky_raises
    THEN Raised(db, t, Exc("AnalyzerError", "backend down"), invoked)
    ELSE stub_analyzer(db, t, processed_data_id, invoked)

CallAnalyzer(fn, db, t, id, env, invoked) ==
    CASE fn = "analyze_headlines" -> analyze_headlines(db, t, id, env, invoked)
      [] fn = "stub_analyzer" -> stub_analyzer(db, t, id, invoked)
      [] fn = "flaky_analyzer" -> flaky_analyzer(db, t, id, env, invoked)

----------------------------------------------------------------------------
(* AnalysisOrchestrator.analyze_data / bulk_analyze *)

\* Python truth value of an Optional[str] argument
Truthy(s) == s # None /\ s # ""

\* analyze_data with the bug of writing a job row for the analysis dispatch
analyze_data_audited(db, registry, t, processed_data_id, analyzer_module, env) ==
    IF processed_data_id \notin DOMAIN db.processed_data THEN Raised(db, t, NotFound, <<>>)
    ELSE LET module_name == IF Truthy(analyzer_module) THEN analyzer_module
                            ELSE db.processed_data[processed_data_id].processor_module
             analyzer_func == get_analyzer(registry, module_name)
             audited == [db EXCEPT !.scraping_jobs =
                            Insert(@, NextId(@), NewJob("analysis", t, NoId))]
         IN IF analyzer_func = None
            THEN Raised(db, t, UnsupportedModule(list_available_analyzers(registry)), <<>>)
            ELSE CallAnalyzer(analyzer_func, audited, t, processed_data_id, env,
                              << <<analyzer_func, processed_data_id>> >>)

analyze_data(db, registry, t, processed_data_id, analyzer_module, env) ==
    IF processed_data_id \notin DOMAIN db.processed_data THEN Raised(db, t, NotFound, <<>>)
    ELSE LET module_name == IF Truthy(analyzer_module) THEN analyzer_module
                            ELSE db.processed_data[processed_data_id].processor_module
             analyzer_func == get_analyzer(registry, module_name)
         IN IF analyzer_func = None
            THEN Raised(db, t, UnsupportedModule(list_available_analyzers(registry)), <<>>)
            ELSE CallAnalyzer(analyzer_func, db, t, processed_data_id, env,
                              << <<analyzer_func, processed_data_id>> >>)

\* the ProcessedData rows of a Source, through its ScrapedData rows, by id
ProcessedOfSource(db, source_id) ==
    SortedSeq({p \in DOMAIN db.processed_data :
                  LET s == db.processed_data[p].scraped_data_id
                  IN s \in DOMAIN db.scraped_data /\ db.scraped_data[s].source_id = source_id})

\* BulkLoop with the bug of leaving the loop at the first item that raises
RECURSIVE BulkLoop_abort(_, _, _, _, _, _, _)
BulkLoop_abort(acc, registry, t, items, i, analyzer_module, envs) ==
    IF i > Len(items) THEN acc
    ELSE LET id == items[i]
             r == analyze_data(acc.db, registry, t, id, analyzer_module, envs[id])
         IN IF r.raised
            THEN [acc EXCEPT !.db = r.db,
                             !.errors = Append(@, [processed_data_id |-> id, error |-> r.exc.msg]),
                             !.dispatched = Append(@, <<id, TRUE>>),
                             !.invoked = @ \o r.invoked]
            ELSE BulkLoop_abort(
                   [acc EXCEPT !.db = r.db,
                               !.results = Append(@, [processed_data_id |-> id, result |-> r.result]),
                               !.dispatched = Append(@, <<id, FALSE>>),
                               !.invoked = @ \o r.invoked],
                   registry, t, items, i + 1, analyzer_module, envs)

\* the for loop of bulk_analyze over items[i..], envs[p] acting on item p;
\* dispatched lists each analyze_data call with whether it raised
RECURSIVE BulkLoop(_, _, _, _, _, _, _)
BulkLoop(acc, registry, t, items, i, analyzer_module, envs) ==
    IF i > Len(items) THEN acc
    ELSE LET id == items[i]
             r == analyze_data(acc.db, registry, t, id, analyzer_module, envs[id])
             next ==
                 IF r.raised
                 THEN [acc EXCEPT !.db = r.db,
                                  !.errors = Append(@, [processed_data_id |-> id, error |-> r.exc.msg]),
                                  !.dispatched = Append(@, <<id, TRUE>>),
                                  !.invoked = @ \o r.invoked]
                 ELSE [acc EXCEPT !.db = r.db,
                                  !.results = Append(@, [processed_data_id |-> id, result |-> r.result]),
                                  !.dispatched = Append(@, <<id, FALSE>>),
                                  !.invoked = @ \o r.invoked]
         IN BulkLoop(next, registry, t, items, i + 1, analyzer_module, envs)

bulk_analyze(db, registry, t, source_id, analyzer_module, envs) ==
    IF source_id \notin DOMAIN db.sources THEN Raised(db, t, NotFound, <<>>)
    ELSE LET processed_items == ProcessedOfSource(db, source_id)
         IN IF processed_items = <<>>
            THEN Returned(db, t, [success |-> TRUE, message |-> "No processed data found",
                                  analyzed_count |-> 0], <<>>)
            ELSE LET acc == BulkLoop([db |-> db, results |-> <<>>, errors |-> <<>>,
                                      dispatched |-> <<>>, invoked |-> <<>>],
                                     registry, t, processed_items, 1, analyzer_module, envs)
                 IN [Returned(acc.db, t,
                              [success |-> TRUE, source_id |-> source_id,
                               source_name |-> db.sources[source_id].name,
                               total_items |-> Len(processed_items),
                               analyzed_count |-> Len(acc.results),
                               error_count |-> Len(acc.errors),
                               results |-> acc.results, errors |-> acc.errors],
                              acc.invoked)
                     EXCEPT !.dispatched = acc.dispatched]

----------------------------------------------------------------------------
(* OpenHPIScraper.save_courses_to_db *)

\* The dicts scrape_courses_list may hand over: course_id and title are keys
\* that may be missing, and a title may be None.  One course comes with
\* either title or None, the other without a title, and one dict without a
\* course_id.  description, url and language are treated by the code as
\* title is, without a NOT NULL column.
CourseKeys == {"python-101", "java-202"}
Titles == {"Python", "Python 2"}
CourseDicts ==
    [course_id : {"python-101"}, title : Titles \cup {None}]
      \cup [course_id : {"java-202"}] \cup [title : {"Java"}]
CourseBatches == UNION {[1..n -> CourseDicts] : n \in 0..MaxBatch}

\* data.get(key, default)
Get(data, key, default) == IF key \in DOMAIN data THEN data[key] ELSE default

\* the for loop of save_courses_to_db with the bug of leaving the loop at the
\* first item that raises
RECURSIVE CourseLoop_abort(_, _, _, _)
CourseLoop_abort(acc, t, courses_data, i) ==
    IF i > Len(courses_data) THEN acc
    ELSE LET data == courses_data[i]
         IN IF "course_id" \notin DOMAIN data
            THEN acc
            ELSE LET found == {id \in DOMAIN acc.loaded :
                                  acc.loaded[id].course_id = data.course_id}
                     next ==
                       IF found # {}
                       THEN LET id == CHOOSE x \in found : TRUE
                            IN [acc EXCEPT
                                  !.loaded[id].title = Get(data, "title", @),
                                  !.loaded[id].updated_at = t,
                                  !.saved_count = @ + 1]
                       ELSE [acc EXCEPT
                               !.added = Append(@, [course_id |-> data.course_id,
                                                     title |-> Get(data, "title", "Unknown"),
                                                     updated_at |-> t]),
                               !.saved_count = @ + 1]
                 IN CourseLoop_abort(next, t, courses_data, i + 1)

\* the for loop of save_courses_to_db over courses_data[i..].  The session
\* does not autoflush (database.py:19), so the query sees the stored rows,
\* as objects that carry the changes made so far (loaded), and not the
\* objects added so far (added).  An item without course_id raises KeyError,
\* which is logged, and the loop goes on.
RECURSIVE CourseLoop(_, _, _, _)
CourseLoop(acc, t, courses_data, i) ==
    IF i > Len(courses_data) THEN acc
    ELSE LET data == courses_data[i]
         IN IF "course_id" \notin DOMAIN data
            THEN CourseLoop(acc, t, courses_data, i + 1)
            ELSE LET found == {id \in DOMAIN acc.loaded :
                                  acc.loaded[id].course_id = data.course_id}
                     next ==
                       IF found # {}
                       THEN LET id == CHOOSE x \in found : TRUE
                            IN [acc EXCEPT
                                  !.loaded[id].title = Get(data, "title", @),
                                  !.loaded[id].updated_at = t,
                                  !.saved_count = @ + 1]
                       ELSE [acc EXCEPT
                               !.added = Append(@, [course_id |-> data.course_id,
                                                     title |-> Get(data, "title", "Unknown"),
                                                     updated_at |-> t]),
                               !.saved_count = @ + 1]
                 IN CourseLoop(next, t, courses_data, i + 1)

\* the rows a flush of the session would store: the loaded rows as changed
\* and the added ones under new ids
Flushed(acc) ==
    LET first == NextId(acc.loaded)
    IN [id \in DOMAIN acc.loaded \cup (first .. (first + Len(acc.added) - 1)) |->
           IF id \in DOMAIN acc.loaded THEN acc.loaded[id] ELSE acc.added[id - first + 1]]

\* Course.title is NOT NULL and Course.course_id is unique
CourseConstraints(rows) ==
    /\ \A id \in DOMAIN rows : rows[id].title # None
    /\ \A a, b \in DOMAIN rows : a # b => rows[a].course_id # rows[b].course_id

\* save_courses_to_db: the loop, then one commit; a commit that fails, by
\* itself (commit_ok false) or on a constraint, is rolled back and re-raised
save_courses_to_db(stored, t, courses_data, commit_ok) ==
    LET acc == CourseLoop([loaded |-> stored, added |-> <<>>, saved_count |-> 0],
                          t, courses_data, 1)
        rows == Flushed(acc)
    IN IF ~CourseConstraints(rows)
       THEN [courses |-> stored, raised |-> TRUE,
             exc |-> Exc("IntegrityError", "constraint failed"), result |-> NoResult]
       ELSE IF ~commit_ok
       THEN [courses |-> stored, raised |-> TRUE, exc |-> CommitError("courses"),
             result |-> NoResult]
       ELSE [courses |-> rows, raised |-> FALSE, exc |-> NoExc,
             result |-> [saved_count |-> acc.saved_count]]

----------------------------------------------------------------------------
(* State machine *)

\* what the caller of the last operation observed
\* env is the analyzer environment of an analyze_data call, NoEnv otherwise;
\* repeat says that the call before it was the same analyze_data call
NoEnv == [commit_ok |-> TRUE, flaky_raises |-> FALSE, ai |-> None]
Response(op, arg, override, r) ==
    [op |-> op, arg |-> arg, override |-> override, raised |-> r.raised, exc |-> r.exc,
     cause |-> r.cause, result |-> r.result, invoked |-> r.invoked,
     dispatched |-> r.dispatched, env |-> NoEnv, repeat |-> FALSE]

Store(r) ==
    /\ sources' = r.db.sources
    /\ scraped_data' = r.db.scraped_data
    /\ processed_data' = r.db.processed_data
    /\ scraping_jobs' = r.db.scraping_jobs
    /\ now' = r.now

WithinBounds(db) == Cardinality(DOMAIN db.scraping_jobs) <= MaxJobs

\* scrape_source calls in flight: the position of each in scrape_and_save
\* and the locals it carries (source, job, save_result, the exception caught)
Calls == 1..MaxCalls
IdleCall ==
    [pc |-> "idle", source_id |-> NoId, fn |-> None, job_id |-> NoId,
     n |-> 0, scraped_data_id |-> NoId, exc |-> NoExc, raised |-> FALSE]

InFlight(c) == calls[c].pc \notin {"idle", "done", "crashed"}

\* the delete_source request in flight: the Source and the rows the session
\* has loaded for the cascade
NoDeletion == [pc |-> "idle", source_id |-> NoId, scraped |-> {}, processed |-> {}]

Init ==
    /\ sources = <<>>
    /\ scraped_data = <<>>
    /\ processed_data = <<>>
    /\ scraping_jobs = <<>>
    /\ scrapers = DefaultScrapers
    /\ analyzers = DefaultAnalyzers
    /\ last_scraper = [n \in ModuleNames |->
                          IF n = "openhpi_public" THEN "scrape_openhpi_public" ELSE None]
    /\ last_analyzer = [n \in ModuleNames |-> None]
    /\ now = 0
    /\ resp = Response("init", 0, None, Returned(DB, 0, NoResult, <<>>))
    /\ calls = [c \in Calls |-> IdleCall]
    /\ deletion = NoDeletion
    /\ courses = <<>>

\* api/sources.py create_source
create_source(db, t, name, module_name, is_active) ==
    IF \E s \in DOMAIN db.sources : db.sources[s].name = name
    THEN Raised(db, t, Exc("HTTP400", "already exists"), <<>>)
    ELSE LET id == NextId(db.sources)
         IN Returned([db EXCEPT !.sources =
                          Insert(@, id, [name |-> name, module_name |-> module_name,
                                         is_active |-> is_active, last_scraped_at |-> NoTime])],
                     t, [success |-> TRUE, id |-> id], <<>>)

CreateSource(name, module_name, is_active) ==
    LET r == create_source(DB, now, name, module_name, is_active)
    IN /\ Cardinality(DOMAIN r.db.sources) <= MaxSources
       /\ Store(r)
       /\ resp' = Response("create_source", <<name, module_name, is_active>>, None, r)
       /\ UNCHANGED <<courses, scrapers, analyzers, last_scraper, last_analyzer, calls, deletion>>

\* api/sources.py update_source: source_data holds the fields of the request
\* that are not None
update_source(db, t, source_id, source_data) ==
    IF source_id \notin DOMAIN db.sources
    THEN Raised(db, t, Exc("HTTP404", "Source not found"), <<>>)
    ELSE LET source == db.sources[source_id]
             updated == [f \in DOMAIN source |->
                           IF f \in DOMAIN source_data THEN source_data[f] ELSE source[f]]
         IN Returned([db EXCEPT !.sources[source_id] = updated], t,
                     [success |-> TRUE, id |-> source_id], <<>>)

UpdateSource(source_id, source_data) ==
    LET r == update_source(DB, now, source_id, source_data)
    IN /\ Store(r)
       /\ resp' = Response("update_source", source_id, None, r)
       /\ UNCHANGED <<courses, scrapers, analyzers, last_scraper, last_analyzer, calls, deletion>>

RegisterScraper(module_name, scraper_func) ==
    /\ scrapers' = register_scraper(scrapers, module_name, scraper_func)
    /\ last_scraper' = [last_scraper EXCEPT ![module_name] = scraper_func]
    /\ resp' = Response("register_scraper", <<module_name, scraper_func>>, None,
                        Returned(DB, now, NoResult, <<>>))
    /\ UNCHANGED <<courses, tables, analyzers, last_analyzer, now, calls, deletion>>

RegisterAnalyzer(module_name, analyzer_func) ==
    /\ analyzers' = register_analyzer(analyzers, module_name, analyzer_func)
    /\ last_analyzer' = [last_analyzer EXCEPT ![module_name] = analyzer_func]
    /\ resp' = Response("register_analyzer", <<module_name, analyzer_func>>, None,
                        Returned(DB, now, NoResult, <<>>))
    /\ UNCHANGED <<courses, tables, scrapers, last_scraper, now, calls, deletion>>

ScrapeSource(source_id, env) ==
    LET r == scrape_source(DB, scrapers, now, source_id, env)
    IN /\ WithinBounds(r.db)
       /\ Store(r)
       /\ resp' = Response("scrape_source", source_id, None, r)
       /\ UNCHANGED <<courses, scrapers, analyzers, last_scraper, last_analyzer, calls, deletion>>

AnalyzeData(processed_data_id, analyzer_module, env) ==
    LET r == analyze_data(DB, analyzers, now, processed_data_id, analyzer_module, env)
    IN /\ Store(r)
       /\ resp' = [Response("analyze_data", processed_data_id, analyzer_module, r)
                    EXCEPT !.env = env,
                           !.repeat = /\ resp.op = "analyze_data"
                                      /\ resp.arg = processed_data_id
                                      /\ resp.override = analyzer_module
                                      /\ resp.env = env]
       /\ UNCHANGED <<courses, scrapers, analyzers, last_scraper, last_analyzer, calls, deletion>>

BulkAnalyze(source_id, analyzer_module, envs) ==
    LET r == bulk_analyze(DB, analyzers, now, source_id, analyzer_module, envs)
    IN /\ Store(r)
       /\ resp' = Response("bulk_analyze", source_id, analyzer_module, r)
       /\ UNCHANGED <<courses, scrapers, analyzers, last_scraper, last_analyzer, calls, deletion>>

SaveCourses(courses_data, commit_ok) ==
    LET r == save_courses_to_db(courses, now, courses_data, commit_ok)
    IN /\ courses' = r.courses
       /\ resp' = [Response("save_courses_to_db", courses_data, None,
                            IF r.raised THEN Raised(DB, now, r.exc, <<>>)
                            ELSE Returned(DB, now, r.result, <<>>))
                    EXCEPT !.env = [NoEnv EXCEPT !.commit_ok = commit_ok],
                           !.repeat = /\ resp.op = "save_courses_to_db"
                                      /\ resp.arg = courses_data
                                      /\ ~resp.raised]
       /\ UNCHANGED <<tables, now, scrapers, analyzers, last_scraper, last_analyzer,
                      calls, deletion>>

\* -- scrape_source, one committed transaction at a time --------------------

\* the arguments each built-in entry point passes to its scrape_and_save
ScraperParams(fn) ==
    IF fn = "scrape_news"
    THEN [job_type |-> "news_scraper", processor_module |-> "news_scraper",
          count_key |-> "news_count"]
    ELSE [job_type |-> "openhpi_public_scrape", processor_module |-> "openhpi_public",
          count_key |-> "courses_count"]

\* the environment in which every commit and fetch succeeds and no item is found
OkEnv == [c1 |-> TRUE, c2 |-> TRUE, c3 |-> TRUE, c4 |-> TRUE,
          f1 |-> [ok |-> TRUE, msg |-> None], f2 |-> [ok |-> TRUE, msg |-> None], n |-> 0]

\* the end of call c: what it committed last; what its caller observes is
\* kept in calls[c] (raised, exc)
Finish(c, r) ==
    /\ Store(r)
    /\ UNCHANGED resp

InvokedBy(c) == << <<calls[c].fn, calls[c].source_id>> >>

\* scrape_source up to the module's own Source lookup: a call that fails
\* validation, or whose scraper is not a built-in module, is over in this
\* step.  Calls are numbered in the order they start.
BeginScrape(c, source_id) ==
    /\ calls[c].pc = "idle"
    /\ \A d \in Calls : d < c => calls[d].pc # "idle"
    /\ LET r == scrape_source(DB, scrapers, now, source_id, OkEnv)
       IN IF r.invoked # <<>> /\ r.invoked[1][1] \in {"scrape_news", "scrape_openhpi_public"}
          THEN /\ calls' = [calls EXCEPT ![c] = [IdleCall EXCEPT !.pc = "create_job",
                                                                 !.source_id = source_id,
                                                                 !.fn = r.invoked[1][1]]]
               /\ UNCHANGED <<tables, now, resp>>
          ELSE /\ calls' = [calls EXCEPT ![c] = [IdleCall EXCEPT !.pc = "done",
                                                                 !.source_id = source_id,
                                                                 !.raised = r.raised,
                                                                 !.exc = r.exc]]
               /\ Store(r)
               /\ UNCHANGED resp
    /\ UNCHANGED <<courses, scrapers, analyzers, last_scraper, last_analyzer, deletion>>

\* CreateJob with the bug of taking over the newest job row instead of
\* inserting one
CreateJob_shared(c, ok) ==
    /\ calls[c].pc = "create_job"
    /\ IF ok
       THEN LET job_id == IF DOMAIN scraping_jobs = {} THEN 1
                          ELSE SetMax(DOMAIN scraping_jobs)
            IN /\ scraping_jobs' = Insert(scraping_jobs, job_id,
                                          NewJob(ScraperParams(calls[c].fn).job_type, now,
                                                 calls[c].source_id))
               /\ now' = now + 1
               /\ calls' = [calls EXCEPT ![c].pc = "fetch", ![c].job_id = job_id]
               /\ UNCHANGED <<sources, scraped_data, processed_data, resp>>
       ELSE /\ calls' = [calls EXCEPT ![c].pc = "done", ![c].raised = TRUE,
                                      ![c].exc = CommitError("job")]
            /\ Finish(c, Raised(DB, now, CommitError("job"), InvokedBy(c)))
    /\ UNCHANGED <<courses, scrapers, analyzers, last_scraper, last_analyzer, deletion>>

\* job = ScrapingJob(status="running", ...); db.add(job); db.commit()
CreateJob(c, ok) ==
    /\ calls[c].pc = "create_job"
    /\ IF ok
       THEN LET job_id == NextId(scraping_jobs)
            IN /\ scraping_jobs' = Insert(scraping_jobs, job_id,
                                          NewJob(ScraperParams(calls[c].fn).job_type, now,
                                                 calls[c].source_id))
               /\ now' = now + 1
               /\ calls' = [calls EXCEPT ![c].pc = "fetch", ![c].job_id = job_id]
               /\ UNCHANGED <<sources, scraped_data, processed_data, resp>>
       ELSE /\ calls' = [calls EXCEPT ![c].pc = "done", ![c].raised = TRUE,
                                      ![c].exc = CommitError("job")]
            /\ Finish(c, Raised(DB, now, CommitError("job"), InvokedBy(c)))
    /\ UNCHANGED <<courses, scrapers, analyzers, last_scraper, last_analyzer, deletion>>

\* the two page fetches and the parse, inside the try block
Fetch(c, f1, f2, n) ==
    /\ calls[c].pc = "fetch"
    /\ calls' = IF ~f1.ok
                THEN [calls EXCEPT ![c].pc = "handler",
                                   ![c].exc = Exc("RequestException", f1.msg)]
                ELSE IF ~f2.ok
                THEN [calls EXCEPT ![c].pc = "handler",
                                   ![c].exc = Exc("RequestException", f2.msg)]
                ELSE [calls EXCEPT ![c].pc = "save", ![c].n = n]
    /\ UNCHANGED <<courses, tables, now, resp, scrapers, analyzers, last_scraper, last_analyzer,
                   deletion>>

\* save_to_generic_tables and its commit.  When the Source row has been
\* deleted meanwhile the UPDATE of last_scraped_at matches no row and the
\* transaction is rolled back.
Save(c, ok) ==
    /\ calls[c].pc = "save"
    /\ IF calls[c].source_id \notin DOMAIN sources
       THEN /\ calls' = [calls EXCEPT ![c].pc = "handler",
                                      ![c].exc = Exc("StaleDataError", "0 rows matched")]
            /\ UNCHANGED <<tables, now>>
       ELSE IF ~ok
       THEN /\ calls' = [calls EXCEPT ![c].pc = "handler", ![c].exc = CommitError("save")]
            /\ UNCHANGED <<tables, now>>
       ELSE LET saved == save_to_generic_tables(DB, now, calls[c].source_id,
                             ScraperParams(calls[c].fn).processor_module, calls[c].n)
            IN /\ Store([db |-> saved.db, now |-> now])
               /\ calls' = [calls EXCEPT ![c].pc = "complete",
                                         ![c].scraped_data_id = saved.scraped_data_id]
    /\ UNCHANGED <<courses, resp, scrapers, analyzers, last_scraper, last_analyzer, deletion>>

\* job.status = "completed"; ...; db.commit(); return {...}
Complete(c, ok) ==
    /\ calls[c].pc = "complete"
    /\ IF ok
       THEN LET j == calls[c].job_id
                db == [DB EXCEPT !.scraping_jobs[j].status = "completed",
                                 !.scraping_jobs[j].completed_at = now,
                                 !.scraping_jobs[j].records_processed = calls[c].n]
                count_key == ScraperParams(calls[c].fn).count_key
                result == [k \in {"success", count_key, "processed_records",
                                  "scraped_data_id", "job_id"} |->
                              CASE k = "success" -> TRUE
                                [] k = count_key -> calls[c].n
                                [] k = "processed_records" -> calls[c].n
                                [] k = "scraped_data_id" -> calls[c].scraped_data_id
                                [] k = "job_id" -> j]
            IN /\ calls' = [calls EXCEPT ![c].pc = "done"]
               /\ Finish(c, Returned(db, now, result, InvokedBy(c)))
       ELSE /\ calls' = [calls EXCEPT ![c].pc = "handler", ![c].exc = CommitError("complete")]
            /\ UNCHANGED <<tables, now, resp>>
    /\ UNCHANGED <<courses, scrapers, analyzers, last_scraper, last_analyzer, deletion>>

\* except Exception as e: job.status = "failed"; ...; db.commit(); raise
HandleFailure(c, ok) ==
    /\ calls[c].pc = "handler"
    /\ LET r == JobFailed(DB, now, calls[c].job_id, calls[c].exc, [c4 |-> ok], InvokedBy(c))
       IN /\ calls' = [calls EXCEPT ![c].pc = "done", ![c].raised = TRUE, ![c].exc = r.exc]
          /\ Finish(c, r)
    /\ UNCHANGED <<courses, scrapers, analyzers, last_scraper, last_analyzer, deletion>>

\* the process running call c dies: the call takes no further step and the
\* transaction it has open, if any, is never committed
Crash(c) ==
    /\ InFlight(c)
    /\ calls' = [calls EXCEPT ![c].pc = "crashed"]
    /\ UNCHANGED <<courses, tables, now, resp, scrapers, analyzers, last_scraper, last_analyzer,
                   deletion>>

\* one step of call c, under one environment for each way the step can go
StepCall(c) ==
    \/ \E ok \in BOOLEAN : CreateJob(c, ok)
    \/ \E f1 \in {f \in FetchOutcomes : f.msg # ""} : Fetch(c, f1, OkEnv.f2, MaxItems)
    \/ \E ok \in BOOLEAN : Save(c, ok)
    \/ \E ok \in BOOLEAN : Complete(c, ok)
    \/ \E ok \in BOOLEAN : HandleFailure(c, ok)

\* -- api/sources.py delete_source --------------------------------------------

\* the rows the cascade of relationship(..., cascade="all, delete-orphan")
\* reaches from a Source: its ScrapedData rows and their ProcessedData rows
ScrapedOf(db, source_id) ==
    {x \in DOMAIN db.scraped_data : db.scraped_data[x].source_id = source_id}
CascadeOf(db, source_id) ==
    [scraped |-> ScrapedOf(db, source_id),
     processed |-> {p \in DOMAIN db.processed_data :
                      db.processed_data[p].scraped_data_id \in ScrapedOf(db, source_id)}]

Without(rows, ids) == [k \in DOMAIN rows \ ids |-> rows[k]]

\* db.delete(source); db.commit() with the rows the session has loaded: the
\* DELETEs of the loaded ProcessedData and ScrapedData rows and of the Source
delete_rows(db, source_id, loaded) ==
    [db EXCEPT !.sources = Without(@, {source_id}),
               !.scraped_data = Without(@, loaded.scraped),
               !.processed_data = Without(@, loaded.processed)]

\* delete_source up to the cascade's SELECTs: the lookup of the Source and
\* the load of its collections, before the first DELETE opens the transaction
DeleteLoad(source_id) ==
    /\ deletion.pc = "idle"
    /\ IF source_id \notin DOMAIN sources
       THEN /\ resp' = Response("delete_source", source_id, None,
                                Raised(DB, now, Exc("HTTP404", "Source not found"), <<>>))
            /\ UNCHANGED deletion
       ELSE /\ deletion' = [pc |-> "loaded", source_id |-> source_id,
                            scraped |-> CascadeOf(DB, source_id).scraped,
                            processed |-> CascadeOf(DB, source_id).processed]
            /\ UNCHANGED resp
    /\ UNCHANGED <<courses, tables, now, scrapers, analyzers, last_scraper, last_analyzer, calls>>

\* the DELETEs and the commit.  fk says whether the database enforces
\* foreign keys (SQLite does not unless told to): if it does, a ScrapedData
\* row committed since the load makes the DELETE of the Source fail.
DeleteCommit(fk) ==
    /\ deletion.pc = "loaded"
    /\ LET id == deletion.source_id
           missed == ScrapedOf(DB, id) \ deletion.scraped
           r == IF fk /\ missed # {}
                THEN Raised(DB, now, Exc("IntegrityError", "foreign key"), <<>>)
                ELSE Returned(delete_rows(DB, id, deletion), now, [success |-> TRUE], <<>>)
       IN /\ Store(r)
          /\ resp' = Response("delete_source", id, None, r)
    /\ deletion' = NoDeletion
    /\ UNCHANGED <<courses, scrapers, analyzers, last_scraper, last_analyzer, calls>>

\* ids a caller may pass: every stored id and one that is not stored
SourceIds == 1..(MaxSources + 1)
ProcessedIds == 1..(MaxScrapes * MaxItems + 1)

\* analyzer environments of a deployment without an AI key
OffEnvs == {e \in AnalyzeEnvs : e.ai = "off"}

\* one environment for each path through a module run
AllOk(env) == env.c1 /\ env.c2 /\ env.c3 /\ env.c4 /\ env.f1.ok /\ env.f2.ok
PathEnvs ==
    {env \in ScrapeEnvs :
        \/ AllOk(env)
        \/ /\ env.n = 0
           /\ \/ ~env.c1 /\ env.c2 /\ env.c3 /\ env.c4 /\ env.f1.ok /\ env.f2.ok
              \/ env.c1 /\ env.c2 /\ env.c3 /\ ~env.f1.ok /\ env.f2.ok
              \/ env.c1 /\ env.c2 /\ env.c3 /\ env.f1.ok /\ ~env.f2.ok
              \/ env.c1 /\ ~env.c2 /\ env.c3 /\ env.f1.ok /\ env.f2.ok
        \/ env.c1 /\ env.c2 /\ ~env.c3 /\ env.f1.ok /\ env.f2.ok}

\* Scrape dispatch: a built-in module, a caller-supplied one and a module
\* name nobody registers, and scrape_source under every environment.
Next ==
    \/ \E m \in {"openhpi_public", "news_scraper"}, a \in BOOLEAN :
          CreateSource("Hacker News", m, a)
    \/ \E m \in {"dummy", "news_scraper"}, a \in BOOLEAN :
          CreateSource("Tech News", m, a)
    \/ \E f \in {"dummy_scraper", "failing_scraper"} : RegisterScraper("dummy", f)
    \/ \E id \in SourceIds, env \in PathEnvs : ScrapeSource(id, env)

Spec == Init /\ [][Next]_vars

\* Analysis dispatch: scrapes that succeed, then analyze_data and bulk_analyze
\* under every environment.  No analyzer is wired for openhpi_public.
NextAnalysis ==
    \/ CreateSource("Hacker News", "news_scraper", TRUE)
    \/ CreateSource("Tech News", "openhpi_public", TRUE)
    \/ RegisterScraper("news_scraper", "scrape_news")
    \/ RegisterAnalyzer("news_scraper", "analyze_headlines")
    \/ RegisterAnalyzer("dummy", "flaky_analyzer")
    \/ /\ Cardinality(DOMAIN scraped_data) < MaxScrapes
       /\ \E id \in SourceIds, env \in {e \in PathEnvs : AllOk(e)} : ScrapeSource(id, env)
    \/ \E id \in ProcessedIds, o \in {None, "", "dummy"}, env \in OffEnvs :
          AnalyzeData(id, o, env)
    \/ \E id \in SourceIds, o \in {None, "", "dummy"},
          envs \in [DOMAIN processed_data -> OffEnvs] : BulkAnalyze(id, o, envs)

SpecAnalysis == Init /\ [][NextAnalysis]_vars

\* The news pipeline with an AI key configured or not: scrapes of one news
\* Source that succeed, then analyze_data and bulk_analyze under every AI
\* outcome.
NextHeadlines ==
    \/ CreateSource("Hacker News", "news_scraper", TRUE)
    \/ RegisterScraper("news_scraper", "scrape_news")
    \/ RegisterAnalyzer("news_scraper", "analyze_headlines")
    \/ /\ Cardinality(DOMAIN scraped_data) < MaxScrapes + 1
       /\ \E id \in SourceIds, env \in {e \in PathEnvs : AllOk(e)} : ScrapeSource(id, env)
    \/ \E id \in ProcessedIds, env \in AnalyzeEnvs : AnalyzeData(id, None, env)
    \/ \E id \in SourceIds, env \in AnalyzeEnvs :
          BulkAnalyze(id, None, [p \in DOMAIN processed_data |-> env])

SpecHeadlines == Init /\ [][NextHeadlines]_vars

\* Scrape calls side by side: each call advances one commit at a time, under
\* every environment, and a call that has started runs to its end.
NextConcurrent ==
    \/ CreateSource("Hacker News", "news_scraper", TRUE)
    \/ RegisterScraper("news_scraper", "scrape_news")
    \/ \E c \in Calls, id \in DOMAIN sources : BeginScrape(c, id)
    \/ \E c \in Calls : StepCall(c)

SpecConcurrent ==
    Init /\ [][NextConcurrent]_vars /\ \A c \in Calls : WF_vars(StepCall(c))

\* Source deletion beside scrapes that succeed and analyses.
NextDeletion ==
    \/ CreateSource("Hacker News", "news_scraper", TRUE)
    \/ RegisterScraper("news_scraper", "scrape_news")
    \/ RegisterAnalyzer("news_scraper", "analyze_headlines")
    \/ \E c \in 1..MaxScrapes, id \in SourceIds : BeginScrape(c, id)
    \/ \E c \in 1..MaxScrapes :
          \/ CreateJob(c, TRUE)
          \/ \E n \in 1..MaxItems : Fetch(c, OkEnv.f1, OkEnv.f2, n)
          \/ Save(c, TRUE)
          \/ Complete(c, TRUE)
          \/ HandleFailure(c, TRUE)
    \/ \E id \in SourceIds : DeleteLoad(id)
    \/ \E fk \in BOOLEAN : DeleteCommit(fk)
    \/ \E id \in ProcessedIds, env \in OffEnvs : AnalyzeData(id, None, env)
    \/ \E id \in SourceIds, envs \in [DOMAIN processed_data -> OffEnvs] :
          BulkAnalyze(id, None, envs)

SpecDeletion == Init /\ [][NextDeletion]_vars

\* The end-to-end scenario: a caller-supplied scraper and analyzer under one
\* module name, scrape_source, then bulk_analyze.
NextEndToEnd ==
    \/ \E a \in BOOLEAN : CreateSource("Tech News", "dummy", a)
    \/ RegisterScraper("dummy", "stub_scraper")
    \/ \E f \in {"stub_analyzer", "flaky_analyzer"} : RegisterAnalyzer("dummy", f)
    \/ /\ Cardinality(DOMAIN scraped_data) < MaxScrapes
       /\ \E id \in SourceIds : ScrapeSource(id, OkEnv)
    \/ \E id \in SourceIds, envs \in [DOMAIN processed_data -> OffEnvs] :
          BulkAnalyze(id, None, envs)

SpecEndToEnd == Init /\ [][NextEndToEnd]_vars

\* Scrape calls that succeed at every step unless the process dies.
NextCrash ==
    \/ CreateSource("Hacker News", "news_scraper", TRUE)
    \/ RegisterScraper("news_scraper", "scrape_news")
    \/ \E c \in Calls, id \in DOMAIN sources : BeginScrape(c, id)
    \/ \E c \in Calls :
          \/ CreateJob(c, TRUE)
          \/ \E n \in 0..MaxItems : Fetch(c, OkEnv.f1, OkEnv.f2, n)
          \/ Save(c, TRUE)
          \/ Complete(c, TRUE)
    \/ \E c \in Calls : Crash(c)

SpecCrash == Init /\ [][NextCrash]_vars

\* Dispatch under failure: a scraper and an analyzer that may raise, and
\* scrape_source, analyze_data and bulk_analyze under every environment.
NextDispatch ==
    \/ CreateSource("Hacker News", "news_scraper", TRUE)
    \/ \E f \in {"scrape_news", "failing_scraper"} : RegisterScraper("news_scraper", f)
    \/ RegisterAnalyzer("news_scraper", "flaky_analyzer")
    \/ /\ Cardinality(DOMAIN scraped_data) < MaxScrapes
       /\ \E id \in SourceIds, env \in PathEnvs : ScrapeSource(id, env)
    \/ \E id \in ProcessedIds, env \in OffEnvs : AnalyzeData(id, None, env)
    \/ \E id \in SourceIds, envs \in [DOMAIN processed_data -> OffEnvs] :
          BulkAnalyze(id, None, envs)

SpecDispatch == Init /\ [][NextDispatch]_vars

\* A built-in scraper registered under its own name or under another one.
NextAlias ==
    \/ \E m \in {"news_scraper", "dummy"} : CreateSource("Hacker News", m, TRUE)
    \/ \E m \in {"news_scraper", "dummy"} : RegisterScraper(m, "scrape_news")
    \/ \E m \in {"news_scraper", "dummy"} : RegisterAnalyzer(m, "stub_analyzer")
    \/ /\ Cardinality(DOMAIN scraped_data) < MaxScrapes
       /\ \E id \in SourceIds, env \in {e \in PathEnvs : AllOk(e)} : ScrapeSource(id, env)
    \/ \E id \in ProcessedIds, env \in OffEnvs : AnalyzeData(id, None, env)

SpecAlias == Init /\ [][NextAlias]_vars

\* Two Sources on one built-in module, scraped under every environment.
NextSources ==
    \/ \E n \in SourceNames : CreateSource(n, "news_scraper", TRUE)
    \/ RegisterScraper("news_scraper", "scrape_news")
    \/ \E id \in SourceIds, env \in PathEnvs : ScrapeSource(id, env)

SpecSources == Init /\ [][NextSources]_vars

\* A Source switched off and on between scrapes and analyses.
NextInactive ==
    \/ \E a \in BOOLEAN : CreateSource("Tech News", "dummy", a)
    \/ \E id \in SourceIds, a \in BOOLEAN : UpdateSource(id, [is_active |-> a])
    \/ RegisterScraper("dummy", "stub_scraper")
    \/ RegisterAnalyzer("dummy", "stub_analyzer")
    \/ /\ Cardinality(DOMAIN scraped_data) < MaxScrapes
       /\ \E id \in SourceIds : ScrapeSource(id, OkEnv)
    \/ \E id \in SourceIds, envs \in [DOMAIN processed_data -> OffEnvs] :
          BulkAnalyze(id, None, envs)

SpecInactive == Init /\ [][NextInactive]_vars

\* The sources API alone: create, rename and delete requests in any order.
NextNames ==
    \/ \E n \in SourceNames, a \in BOOLEAN : CreateSource(n, "news_scraper", a)
    \/ \E id \in SourceIds, n \in SourceNames : UpdateSource(id, [name |-> n])
    \/ \E id \in SourceIds : DeleteLoad(id)
    \/ \E fk \in BOOLEAN : DeleteCommit(fk)

SpecNames == Init /\ [][NextNames]_vars

\* The course list saved batch after batch, the commit failing or not.
NextCourses ==
    \E courses_data \in CourseBatches, commit_ok \in BOOLEAN :
       SaveCourses(courses_data, commit_ok)

SpecCourses == Init /\ [][NextCourses]_vars

\* Registries alone: every module name with every function.
NextRegistry ==
    \/ \E n \in ModuleNames, f \in {"scrape_news", "dummy_scraper"} : RegisterScraper(n, f)
    \/ \E n \in {"news_scraper", "dummy"}, f \in {"analyze_headlines", "stub_analyzer"} :
          RegisterAnalyzer(n, f)

SpecRegistry == Init /\ [][NextRegistry]_vars

----------------------------------------------------------------------------
(* Scrape dispatch: claims C1 - C5 *)

BuiltinScrapers == {"scrape_openhpi_public", "scrape_news"}

\* the step is a scrape_source call
ScrapeCall == resp'.op = "scrape_source"
ScrapeInvoked == ScrapeCall /\ resp'.invoked # <<>>
ScrapeBuiltin == ScrapeInvoked /\ resp'.invoked[1][1] \in BuiltinScrapers

AddedJobs == DOMAIN scraping_jobs' \ DOMAIN scraping_jobs
AddedProcessed == DOMAIN processed_data' \ DOMAIN processed_data

\* the call added exactly one job, completed, with the count the module
\* reported, and bumped last_scraped_at to the job's start or later
OneCompletedJob ==
    /\ Cardinality(AddedJobs) = 1
    /\ \A j \in AddedJobs :
          /\ scraping_jobs'[j].status = "completed"
          /\ scraping_jobs'[j].completed_at # NoTime
          /\ "processed_records" \in DOMAIN resp'.result
          /\ scraping_jobs'[j].records_processed = resp'.result.processed_records
          /\ scraping_jobs'[j].records_processed = Cardinality(AddedProcessed)
          /\ sources'[resp'.arg].last_scraped_at # NoTime
          /\ sources'[resp'.arg].last_scraped_at >= scraping_jobs'[j].started_at

OneFailedJob ==
    /\ Cardinality(AddedJobs) = 1
    /\ \A j \in AddedJobs :
          /\ scraping_jobs'[j].status = "failed"
          /\ scraping_jobs'[j].completed_at # NoTime

C3_MissingSourceNotFound ==
    [][(ScrapeCall /\ resp'.arg \notin DOMAIN sources) =>
          /\ resp'.raised /\ resp'.exc = NotFound
          /\ resp'.invoked = <<>>
          /\ AddedJobs = {}
          /\ UNCHANGED tables]_vars

C3_Witness ==
    /\ resp.op = "scrape_source" /\ resp.raised /\ resp.exc = NotFound
    /\ resp.arg \notin DOMAIN sources
    /\ DOMAIN sources # {} /\ DOMAIN scraping_jobs # {} /\ DOMAIN processed_data # {}

\* C4: scrape_source on a Source with is_active false raises InvalidState,
\* no job is created, no scraper invoked, no ScrapedData, ProcessedData or
\* ScrapingJob row is written and last_scraped_at is unchanged.
C4_InactiveSourceInvalidState ==
    [][(/\ ScrapeCall /\ resp'.arg \in DOMAIN sources
        /\ ~sources[resp'.arg].is_active) =>
          /\ resp'.raised /\ resp'.exc = InvalidState
          /\ resp'.invoked = <<>>
          /\ UNCHANGED <<scraped_data, processed_data, scraping_jobs>>
          /\ sources'[resp'.arg].last_scraped_at = sources[resp'.arg].last_scraped_at]_vars

C4_Witness ==
    /\ resp.op = "scrape_source" /\ resp.raised /\ resp.exc = InvalidState
    /\ resp.arg \in DOMAIN sources /\ ~sources[resp.arg].is_active
    /\ get_scraper(scrapers, sources[resp.arg].module_name) # None
    /\ DOMAIN scraping_jobs # {}

Registered(last) == {n \in ModuleNames : last[n] # None}

\* C5: scrape_source on an active Source whose module_name has no registered
\* scraper raises UnsupportedModule, the message lists every registered
\* module name, no scraper is invoked and the call leaves no job of its own
\* in running.
C5_UnregisteredModuleUnsupported ==
    [][(/\ ScrapeCall /\ resp'.arg \in DOMAIN sources
        /\ sources[resp'.arg].is_active
        /\ sources[resp'.arg].module_name \notin Registered(last_scraper)) =>
          /\ resp'.raised /\ resp'.exc.kind = "UnsupportedModule"
          /\ Range(resp'.exc.available) = Registered(last_scraper)
          /\ resp'.invoked = <<>>
          /\ \A j \in DOMAIN scraping_jobs' :
                scraping_jobs'[j].status = "running" =>
                   j \in DOMAIN scraping_jobs /\ scraping_jobs[j] = scraping_jobs'[j]]_vars

C5_Witness ==
    /\ resp.op = "scrape_source" /\ resp.raised /\ resp.exc.kind = "UnsupportedModule"
    /\ resp.arg \in DOMAIN sources /\ sources[resp.arg].is_active
    /\ Len(resp.exc.available) = 2
    /\ \E j \in DOMAIN scraping_jobs : scraping_jobs[j].status = "running"

----------------------------------------------------------------------------
(* Registries: claim C6 *)

NoDuplicates(s) == \A i, j \in DOMAIN s : s[i] = s[j] => i = j

\* C6: after any sequence of registrations, get_scraper(n) is the function
\* most recently registered under n and None for a name never registered,
\* and list_available_scrapers holds every registered name exactly once; the
\* same for the analyzers.
C6_RegistryLastWins ==
    /\ \A n \in ModuleNames :
          /\ get_scraper(scrapers, n) = last_scraper[n]
          /\ get_analyzer(analyzers, n) = last_analyzer[n]
    /\ NoDuplicates(list_available_scrapers(scrapers))
    /\ Range(list_available_scrapers(scrapers)) = Registered(last_scraper)
    /\ NoDuplicates(list_available_analyzers(analyzers))
    /\ Range(list_available_analyzers(analyzers)) = Registered(last_analyzer)

C6_Witness ==
    /\ resp.op = "register_scraper" /\ resp.arg = <<"openhpi_public", "dummy_scraper">>
    /\ get_scraper(scrapers, "openhpi_public") = "dummy_scraper"
    /\ get_scraper(scrapers, "dummy") = "scrape_news"
    /\ get_scraper(scrapers, "news_scraper") = None
    /\ get_analyzer(analyzers, "dummy") = "stub_analyzer"
    /\ get_analyzer(analyzers, "news_scraper") = "analyze_headlines"

----------------------------------------------------------------------------
(* Analysis dispatch: claims C7 - C10 *)

BulkCall == resp'.op = "bulk_analyze"
BulkItems == ProcessedOfSource(DB, resp'.arg)
Ids(s) == [i \in DOMAIN s |-> s[i].processed_data_id]
FailedIds(dispatched) == {dispatched[i][1] : i \in {j \in DOMAIN dispatched : dispatched[j][2]}}

\* C7: bulk_analyze over a Source with N > 0 items does not raise, dispatches
\* analyze_data once for each item, and with k dispatches raising returns
\* total_items = N, analyzed_count = N - k, error_count = k, one errors entry
\* per failed item and one results entry per successful item.
C7_BulkIsolatesFailures ==
    [][(BulkCall /\ resp'.arg \in DOMAIN sources /\ BulkItems # <<>>) =>
          LET N == Len(BulkItems)
              failed == FailedIds(resp'.dispatched)
              k == Cardinality(failed)
          IN /\ ~resp'.raised
             /\ [i \in DOMAIN resp'.dispatched |-> resp'.dispatched[i][1]] = BulkItems
             /\ resp'.result.total_items = N
             /\ resp'.result.analyzed_count = N - k
             /\ resp'.result.error_count = k
             /\ Len(resp'.result.errors) = k
             /\ Range(Ids(resp'.result.errors)) = failed
             /\ Len(resp'.result.results) = N - k
             /\ Range(Ids(resp'.result.results)) = Range(BulkItems) \ failed]_vars

C7_Witness ==
    /\ resp.op = "bulk_analyze" /\ ~resp.raised
    /\ "total_items" \in DOMAIN resp.result
    /\ resp.result.total_items = 2
    /\ resp.result.analyzed_count = 1
    /\ resp.result.error_count = 1
    /\ Ids(resp.result.errors) = <<1>>

\* C8 as stated: bulk_analyze on an existing Source without ProcessedData
\* rows returns a summary reporting analyzed_count = 0 and error_count = 0,
\* without raising and without invoking an analyzer; on a Source id that does
\* not exist it raises NotFound.
C8_AsStated ==
    [][BulkCall =>
          /\ resp'.arg \notin DOMAIN sources => (resp'.raised /\ resp'.exc = NotFound)
          /\ (resp'.arg \in DOMAIN sources /\ BulkItems = <<>>) =>
                /\ ~resp'.raised
                /\ resp'.invoked = <<>>
                /\ {"analyzed_count", "error_count"} \subseteq DOMAIN resp'.result
                /\ resp'.result.analyzed_count = 0
                /\ resp'.result.error_count = 0]_vars

AnalyzeCall == resp'.op = "analyze_data"

\* the module an analyze_data call dispatches to, given when an override
\* counts as supplied
DispatchesTo(module_name) ==
    LET fn == get_analyzer(analyzers, module_name)
    IN IF fn = None
       THEN resp'.raised /\ resp'.exc.kind = "UnsupportedModule" /\ resp'.invoked = <<>>
       ELSE resp'.invoked = << <<fn, resp'.arg>> >>

\* C9 as stated: analyze_data raises NotFound when no ProcessedData row has
\* the id; otherwise it dispatches to the analyzer registered under the
\* override whenever an override is supplied, whatever its value, else to the
\* one registered under the row's processor_module, raises UnsupportedModule
\* when that name is unregistered, and passes the id on to the analyzer.
C9_AsStated ==
    [][AnalyzeCall =>
          IF resp'.arg \notin DOMAIN processed_data
          THEN resp'.raised /\ resp'.exc = NotFound /\ resp'.invoked = <<>>
          ELSE DispatchesTo(IF resp'.override # None THEN resp'.override
                            ELSE processed_data[resp'.arg].processor_module)]_vars

\* C10: analyze_data and bulk_analyze never create or modify a ScrapingJob
\* row, whether the analyzer returns or raises, and an exception raised by
\* the analyzer reaches the caller of analyze_data unchanged.
C10_AnalysisWritesNoJob ==
    [][(AnalyzeCall \/ BulkCall) =>
          /\ scraping_jobs' = scraping_jobs
          /\ (AnalyzeCall /\ resp'.raised /\ resp'.invoked # <<>>) => resp'.exc = resp'.cause]_vars

C10_Witness ==
    /\ resp.op = "analyze_data" /\ resp.raised /\ resp.invoked # <<>>
    /\ resp.exc.kind = "AnalyzerError"
    /\ DOMAIN scraping_jobs # {}

----------------------------------------------------------------------------
(* Analysis: claims C11 - *)

\* the step is an analyze_data call with the arguments and under the analyzer
\* behaviour of the call before it
AnalyzeRepeated ==
    /\ resp.op = "analyze_data" /\ resp'.op = "analyze_data"
    /\ resp'.arg = resp.arg /\ resp'.override = resp.override /\ resp'.env = resp.env

\* C11: analyze_data called a second time on the same ProcessedData id, the
\* analyzer answering as it did the first time, leaves every ProcessedData
\* row (sentiment_score, key_concepts, data_metadata) as the first call left
\* it: re-analysis overwrites and accumulates nothing.
C11_ReanalysisIsIdempotent ==
    [][AnalyzeRepeated => processed_data' = processed_data]_vars

C11_Witness ==
    /\ resp.op = "analyze_data" /\ resp.repeat /\ ~resp.raised /\ resp.env.ai = "parsed"
    /\ resp.invoked = << <<"analyze_headlines", resp.arg>> >>
    /\ \E p \in ItemsOf(DB, resp.arg) :
          /\ processed_data[p].sentiment_score = SentimentOf("parsed").score
          /\ processed_data[p].data_metadata = ItemMetadata("news_scraper")

----------------------------------------------------------------------------
(* Job lifecycle: claim C12 *)

Terminal == {"completed", "failed"}

\* the stored row of job j is left alone by the step
JobKept(j) == j \in DOMAIN scraping_jobs' /\ scraping_jobs'[j] = scraping_jobs[j]

----------------------------------------------------------------------------
(* Who writes the job: claims C13 - C15 *)

\* C13 as stated: every scrape_source call that passes validation (the
\* Source exists, is active and its module is registered) adds exactly one
\* ScrapingJob row, whatever scraper function is registered (calls whose
\* commit of the job row fails set aside).
C13_AsStated ==
    [][(ScrapeInvoked /\ resp'.cause # CommitError("job")) =>
          Cardinality(AddedJobs) = 1]_vars

\* C14 as stated: scrape_source dispatching to the stub scraper leaves three
\* new ProcessedData rows and one new ScrapingJob, completed, with
\* records_processed = 3; bulk_analyze dispatching every one of the three
\* rows to the stub analyzer without a failure leaves them all with
\* sentiment_score 1.0 and reports analyzed_count = 3 and error_count = 0.
C14_AsStated ==
    [][/\ (/\ ScrapeInvoked /\ resp'.invoked[1][1] = "stub_scraper" /\ ~resp'.raised) =>
             /\ Cardinality(AddedProcessed) = 3
             /\ Cardinality(AddedJobs) = 1
             /\ \A j \in AddedJobs : /\ scraping_jobs'[j].status = "completed"
                                      /\ scraping_jobs'[j].records_processed = 3
       /\ (/\ BulkCall /\ ~resp'.raised /\ Len(resp'.dispatched) = 3
           /\ \A i \in DOMAIN resp'.dispatched : ~resp'.dispatched[i][2]
           /\ \A i \in DOMAIN resp'.invoked : resp'.invoked[i][1] = "stub_analyzer") =>
             /\ \A i \in DOMAIN resp'.dispatched :
                   processed_data'[resp'.dispatched[i][1]].sentiment_score = 10
             /\ resp'.result.analyzed_count = 3
             /\ resp'.result.error_count = 0]_vars

\* C15 as stated: before any caller registers anything, openhpi_public and
\* news_scraper are registered scrapers and news_scraper is a registered
\* analyzer.
C15_AsStated ==
    resp.op = "init" =>
       /\ get_scraper(scrapers, "openhpi_public") # None
       /\ get_scraper(scrapers, "news_scraper") # None
       /\ get_analyzer(analyzers, "news_scraper") # None

----------------------------------------------------------------------------
(* What a scrape stores: claims C16 - *)

AddedScraped == DOMAIN scraped_data' \ DOMAIN scraped_data

\* the HTTP responses the rows added by the step were taken from
ResponsesUsed ==
    UNION {{scraped_data'[x].raw_html, scraped_data'[x].raw_json} : x \in AddedScraped}

\* C16 as stated: a built-in scraper run that returns normally has added one
\* ScrapedData row for each fetch it made, ProcessedData rows that all
\* reference that row, has set last_scraped_at, and the raw payload of the
\* row and its items come from the same fetch.
C16_AsStated ==
    [][(ScrapeBuiltin /\ ~resp'.raised) =>
          /\ Cardinality(AddedScraped) = Cardinality(ResponsesUsed)
          /\ \A x \in AddedScraped : scraped_data'[x].raw_html = scraped_data'[x].raw_json
          /\ \A p \in AddedProcessed : processed_data'[p].scraped_data_id \in AddedScraped
          /\ sources'[resp'.arg].last_scraped_at # NoTime]_vars

----------------------------------------------------------------------------
(* What analysis may touch: claims C17 - C19 *)

\* C17 as stated: an analyze_data call on ProcessedData id p changes no
\* ProcessedData row other than p.
C17_AsStated ==
    [][AnalyzeCall =>
          \A p \in DOMAIN processed_data :
             p # resp'.arg =>
                p \in DOMAIN processed_data' /\ processed_data'[p] = processed_data[p]]_vars

\* C18 as stated: in every reachable state every ScrapedData row references
\* an existing Source and every ProcessedData row references an existing
\* ScrapedData row.
C18_AsStated ==
    /\ \A x \in DOMAIN scraped_data : scraped_data[x].source_id \in DOMAIN sources
    /\ \A p \in DOMAIN processed_data :
          processed_data[p].scraped_data_id \in DOMAIN scraped_data

\* C19: no scrape_source, analyze_data or bulk_analyze call changes or
\* removes a ScrapedData row that already exists (a further scrape adds a
\* row), and an analysis call changes nothing but ProcessedData rows: the
\* Source, ScrapedData and ScrapingJob tables and the set of ProcessedData
\* ids are as before.
C19_ScrapedDataImmutable ==
    [][(resp'.op \in {"scrape_source", "analyze_data", "bulk_analyze"}) =>
          /\ \A x \in DOMAIN scraped_data :
                x \in DOMAIN scraped_data' /\ scraped_data'[x] = scraped_data[x]
          /\ resp'.op \in {"analyze_data", "bulk_analyze"} =>
                /\ scraped_data' = scraped_data
                /\ sources' = sources
                /\ scraping_jobs' = scraping_jobs
                /\ DOMAIN processed_data' = DOMAIN processed_data]_vars

C19_Witness ==
    /\ resp.op = "bulk_analyze" /\ ~resp.raised
    /\ \E x, y \in DOMAIN scraped_data :
          /\ x # y /\ scraped_data[x].source_id = scraped_data[y].source_id
          /\ \E p \in ItemsOf(DB, x) : processed_data[p].sentiment_score # NoScore

----------------------------------------------------------------------------
(* Scrape calls side by side: claim C20 *)

HasJob(c) == calls[c].job_id # NoId
HasScraped(c) == calls[c].scraped_data_id # NoId
JobOf(c) == scraping_jobs[calls[c].job_id]

C20_Rows ==
    /\ \A c \in Calls : InFlight(c) => ENABLED StepCall(c)
    /\ \A c \in Calls :
          /\ HasJob(c) => /\ calls[c].job_id \in DOMAIN scraping_jobs
                          /\ JobOf(c).source_id = calls[c].source_id
          /\ HasScraped(c) =>
                /\ calls[c].scraped_data_id \in DOMAIN scraped_data
                /\ scraped_data[calls[c].scraped_data_id].source_id = calls[c].source_id
                /\ Cardinality(ItemsOf(DB, calls[c].scraped_data_id)) = calls[c].n
          /\ (calls[c].pc = "done" /\ ~calls[c].raised) =>
                /\ HasJob(c) /\ HasScraped(c)
                /\ JobOf(c).status = "completed"
                /\ JobOf(c).records_processed = calls[c].n
    /\ \A c, d \in Calls :
          c # d => /\ (HasJob(c) /\ HasJob(d)) => calls[c].job_id # calls[d].job_id
                   /\ (HasScraped(c) /\ HasScraped(d)) =>
                         calls[c].scraped_data_id # calls[d].scraped_data_id
    /\ \A x \in DOMAIN scraped_data : scraped_data[x].scrape_job_id = NoId

\* a step of one call leaves the rows and the locals of every other call alone
C20_Frame ==
    \A c \in Calls :
       calls'[c] = calls[c] =>
          /\ HasJob(c) => JobKept(calls[c].job_id)
          /\ HasScraped(c) =>
                /\ calls[c].scraped_data_id \in DOMAIN scraped_data'
                /\ scraped_data'[calls[c].scraped_data_id] =
                      scraped_data[calls[c].scraped_data_id]
                /\ \A p \in ItemsOf(DB, calls[c].scraped_data_id) :
                      p \in DOMAIN processed_data' /\ processed_data'[p] = processed_data[p]

----------------------------------------------------------------------------
(* Crashes and partial writes: claims C21, C27 *)

\* C21 as stated: a call whose process died between job creation and job
\* completion has left no stored job in running, and no stored ScrapedData
\* or ProcessedData row beside a job that is not completed or failed.
C21_AsStated ==
    \A c \in Calls :
       (calls[c].pc = "crashed" /\ HasJob(c)) =>
          /\ JobOf(c).status # "running"
          /\ HasScraped(c) => JobOf(c).status \in Terminal

----------------------------------------------------------------------------
(* No retry, no swallowed error: claim C22 *)

\* a scrape_source call reports to its caller what its scraper raised: a job
\* the call added and did not complete, or a caller-supplied scraper that
\* always raises, goes with an exception of the same message
ScrapeErrorReachesCaller ==
    /\ \A j \in AddedJobs :
          scraping_jobs'[j].status # "completed" =>
             /\ resp'.raised
             /\ scraping_jobs'[j].status = "failed" =>
                   scraping_jobs'[j].error_message = resp'.exc.msg
    /\ (resp'.invoked # <<>> /\ resp'.invoked[1][1] = "failing_scraper") =>
          resp'.raised /\ resp'.exc = Exc("Exception", "stub failure")

\* an analyze_data call whose analyzer's backend is down raises that error
AnalyzeErrorReachesCaller ==
    (resp'.invoked # <<>> /\ resp'.invoked[1][1] = "flaky_analyzer" /\ resp'.env.flaky_raises) =>
       resp'.raised /\ resp'.exc = Exc("AnalyzerError", "backend down")

\* C22: one scrape_source call invokes the scraper at most once and one
\* analyze_data call the analyzer at most once, bulk_analyze dispatches each
\* item of the Source exactly once, and an exception raised by a module
\* reaches the caller, except in the bulk_analyze loop where it is recorded
\* in errors under the item's id.
C22_NoRetryNoSwallow ==
    [][/\ ScrapeCall => Len(resp'.invoked) <= 1 /\ ScrapeErrorReachesCaller
       /\ AnalyzeCall => Len(resp'.invoked) <= 1 /\ AnalyzeErrorReachesCaller
       /\ (BulkCall /\ resp'.arg \in DOMAIN sources) =>
             /\ ~resp'.raised
             /\ [i \in DOMAIN resp'.dispatched |-> resp'.dispatched[i][1]] = BulkItems
             /\ Len(resp'.invoked) <= Len(BulkItems)
             /\ resp'.dispatched # <<>> =>
                   {e.processed_data_id : e \in Range(resp'.result.errors)}
                      = FailedIds(resp'.dispatched)]_vars

\* a bulk_analyze that recorded a failing item, after a scrape that failed
\* and one that succeeded
C22_Witness ==
    /\ resp.op = "bulk_analyze" /\ ~resp.raised
    /\ FailedIds(resp.dispatched) # {}
    /\ \E j \in DOMAIN scraping_jobs : scraping_jobs[j].status = "failed"

----------------------------------------------------------------------------
(* Which module a row is attributed to: claim C23 *)

\* C23 as stated: every ProcessedData row added by a scrape_source call has
\* as processor_module the name under which the invoked scraper was
\* registered, which is the Source's module_name at the time of the call.
C23_AsStated ==
    [][ScrapeInvoked =>
          \A p \in AddedProcessed :
             processed_data'[p].processor_module = sources[resp'.arg].module_name]_vars

----------------------------------------------------------------------------
(* Sources side by side: claim C24 *)

\* C24: a scrape_source call on Source A adds ScrapedData rows owned by A
\* and ProcessedData rows under them only, leaves every other Source (its
\* last_scraped_at included) and every row stored before as they were, and
\* a successful built-in run adds a ScrapedData row of its own, so two
\* Sources that share a module each get their row.
C24_SourcesIndependent ==
    [][ScrapeCall =>
          /\ \A x \in AddedScraped : scraped_data'[x].source_id = resp'.arg
          /\ \A p \in AddedProcessed : processed_data'[p].scraped_data_id \in AddedScraped
          /\ \A b \in DOMAIN sources : b # resp'.arg => sources'[b] = sources[b]
          /\ \A x \in DOMAIN scraped_data : scraped_data'[x] = scraped_data[x]
          /\ \A p \in DOMAIN processed_data : processed_data'[p] = processed_data[p]
          /\ (ScrapeBuiltin /\ ~resp'.raised) => Cardinality(AddedScraped) = 1]_vars

\* two Sources on the same module, each scraped, each with a row and items
C24_Witness ==
    /\ resp.op = "scrape_source" /\ ~resp.raised
    /\ \E a, b \in DOMAIN sources :
          /\ a # b /\ sources[a].module_name = sources[b].module_name
          /\ sources[a].last_scraped_at # NoTime /\ sources[b].last_scraped_at # NoTime
          /\ \E x, y \in DOMAIN scraped_data :
                /\ x # y /\ scraped_data[x].source_id = a /\ scraped_data[y].source_id = b
                /\ ItemsOf(DB, x) # {} /\ ItemsOf(DB, y) # {}

----------------------------------------------------------------------------
(* Inactive Sources: claim C25 *)

\* C25 as stated: a scrape_source or bulk_analyze call on a Source whose
\* is_active is false invokes no module and changes no stored row.
C25_AsStated ==
    [][((ScrapeCall \/ BulkCall)
          /\ resp'.arg \in DOMAIN sources /\ ~sources[resp'.arg].is_active) =>
             /\ resp'.invoked = <<>>
             /\ tables' = tables]_vars

----------------------------------------------------------------------------
(* Order of the checks in scrape_source: claim C26 *)

\* the module name of the Source the call names has no scraper registered
Unregistered(source_id) == get_scraper(scrapers, sources[source_id].module_name) = None

\* C26: scrape_source reports the first check that fails, in the order
\* Source exists, Source is active, module is registered: a missing Source
\* raises NotFound whatever the registry holds, an inactive Source raises
\* InvalidState even when its module is unregistered, and an active Source
\* with an unregistered module raises UnsupportedModule; none invokes a scraper.
C26_ChecksInOrder ==
    [][ScrapeCall =>
          /\ resp'.arg \notin DOMAIN sources =>
                resp'.raised /\ resp'.exc = NotFound /\ resp'.invoked = <<>>
          /\ (resp'.arg \in DOMAIN sources /\ ~sources[resp'.arg].is_active) =>
                resp'.raised /\ resp'.exc = InvalidState /\ resp'.invoked = <<>>
          /\ (resp'.arg \in DOMAIN sources /\ sources[resp'.arg].is_active
                 /\ Unregistered(resp'.arg)) =>
                resp'.raised /\ resp'.exc.kind = "UnsupportedModule" /\ resp'.invoked = <<>>]_vars

\* a scrape_source call on an inactive Source whose module is unregistered
C26_Witness ==
    /\ resp.op = "scrape_source" /\ resp.exc = InvalidState
    /\ resp.arg \in DOMAIN sources
    /\ ~sources[resp.arg].is_active /\ Unregistered(resp.arg)

----------------------------------------------------------------------------
(* Rows and job outcome: claim C27 *)

\* C27 as stated: a built-in scrape whose job ends failed has stored no
\* ScrapedData or ProcessedData row and left last_scraped_at alone; one
\* whose job ends completed has stored its ScrapedData row, the
\* ProcessedData rows under it and the new last_scraped_at.
C27_AsStated ==
    [][ScrapeBuiltin =>
          \A j \in AddedJobs :
             /\ scraping_jobs'[j].status = "failed" =>
                   /\ AddedScraped = {} /\ AddedProcessed = {}
                   /\ sources'[resp'.arg].last_scraped_at = sources[resp'.arg].last_scraped_at
             /\ scraping_jobs'[j].status = "completed" =>
                   /\ Cardinality(AddedScraped) = 1
                   /\ Cardinality(AddedProcessed) = scraping_jobs'[j].records_processed
                   /\ \A p \in AddedProcessed : processed_data'[p].scraped_data_id \in AddedScraped
                   /\ sources'[resp'.arg].last_scraped_at >= scraping_jobs'[j].started_at]_vars

----------------------------------------------------------------------------
(* Source names: claim C28 *)

\* C28 as stated: whatever create_source, update_source and delete_source
\* requests were served, no two stored Source rows have the same name.
C28_AsStated ==
    \A a, b \in DOMAIN sources : a # b => sources[a].name # sources[b].name

----------------------------------------------------------------------------
(* Saving the course list: claim C29 *)

SaveCall == resp'.op = "save_courses_to_db"

\* the items of the batch that carry a course_id, and the stored rows of a key
Keyed(courses_data) == {i \in DOMAIN courses_data : "course_id" \in DOMAIN courses_data[i]}
RowsOf(rows, k) == {id \in DOMAIN rows : rows[id].course_id = k}
InBatch(courses_data, k) == {i \in Keyed(courses_data) : courses_data[i].course_id = k}
\* the items of the batch that give course k a title
Titled(courses_data, k) == {i \in InBatch(courses_data, k) : "title" \in DOMAIN courses_data[i]}

\* C29: save_courses_to_db that returns has counted the items that did not
\* raise, skipping the others; every row stored before is still there under
\* its id and course_id, untouched when the batch does not name it; a
\* course_id named by the batch has exactly one row, a new one only when
\* none was stored, with the last title the batch gives it; saving the same
\* batch again changes nothing.  A call
\* whose commit fails raises and leaves the table as it was.
C29_UpsertOrNothing ==
    [][SaveCall =>
          /\ ~resp'.env.commit_ok => resp'.raised
          /\ resp'.raised => courses' = courses
          /\ ~resp'.raised =>
                /\ resp'.result.saved_count = Cardinality(Keyed(resp'.arg))
                /\ \A id \in DOMAIN courses :
                      /\ id \in DOMAIN courses'
                      /\ courses'[id].course_id = courses[id].course_id
                      /\ InBatch(resp'.arg, courses[id].course_id) = {} =>
                            courses'[id] = courses[id]
                /\ \A k \in CourseKeys :
                      /\ InBatch(resp'.arg, k) # {} => Cardinality(RowsOf(courses', k)) = 1
                      /\ Titled(resp'.arg, k) # {} =>
                            \A id \in RowsOf(courses', k) :
                               courses'[id].title = resp'.arg[SetMax(Titled(resp'.arg, k))].title
                      /\ InBatch(resp'.arg, k) = {} => RowsOf(courses', k) = RowsOf(courses, k)
                /\ resp'.repeat => courses' = courses]_vars

\* the same batch saved twice, with an item that was skipped, a course that
\* was inserted by the first save and updated by the second
C29_Witness ==
    /\ resp.op = "save_courses_to_db" /\ resp.repeat /\ ~resp.raised
    /\ Keyed(resp.arg) # {} /\ Keyed(resp.arg) # DOMAIN resp.arg
    /\ \A k \in CourseKeys : Cardinality(RowsOf(courses, k)) <= 1

----------------------------------------------------------------------------
(* What analyze_headlines accounts for: claim C30 *)

\* the step is an analyze_data call that ran analyze_headlines to its return
\* over a ScrapedData row with items
HeadlinesReturned ==
    /\ AnalyzeCall /\ ~resp'.raised
    /\ resp'.invoked # <<>> /\ resp'.invoked[1][1] = "analyze_headlines"
    /\ ItemsOf(DB, resp'.arg) # {}

\* C30 as stated: analyze_headlines over a ScrapedData row with N > 0 items
\* returns total_items = N and analyzed_count + error_count = N, and leaves
\* every one of the N items with a sentiment_score and a 'sentiment' entry
\* in its metadata.
C30_AsStated ==
    [][HeadlinesReturned =>
          LET N == Cardinality(ItemsOf(DB, resp'.arg))
          IN /\ {"total_items", "analyzed_count", "error_count"} \subseteq DOMAIN resp'.result
             /\ resp'.result.total_items = N
             /\ resp'.result.analyzed_count + resp'.result.error_count = N
             /\ \A p \in ItemsOf(DB, resp'.arg) :
                   /\ processed_data'[p].sentiment_score # NoScore
                   /\ DictHas(processed_data'[p].data_metadata, "sentiment")]_vars

====
